---------------------------- MODULE Spec2Model ----------------------------
(***************************************************************************)
(* A model of the usecart Python SDK: the facade (Cart), the HTTP          *)
(* transport (HttpClient.get and its helpers), the typed error hierarchy   *)
(* and the stores.compare wrapper.                                         *)
(*                                                                         *)
(* Strings the code parses or builds character by character (header       *)
(* values, URLs) are sequences of one-character strings; other strings     *)
(* are TLA+ strings.  Python values are tagged records: field t is the     *)
(* Python type, s a str payload, n an int payload, b a bool payload, o a   *)
(* dict payload (a function from keys to values) and l a list payload.     *)
(***************************************************************************)
EXTENDS Integers, Sequences, FiniteSets, TLC

VARIABLES
    cart,        \* the Cart facade object, or PyNone while none exists
    http,        \* the HttpClient owned by cart (api_key, rate_limit), or PyNone
    ctor,        \* the last Cart(api_key) call: its argument and what it raised
    requests,    \* number of network requests issued by urlopen so far
    pc,          \* pc[t]: where thread t is inside HttpClient.get
    resp,        \* resp[t]: the HTTP response urlopen delivered to thread t
    local,       \* local[t]: local variables of the handler running in thread t
    outcome,     \* outcome[t]: what thread t's last get() returned or raised
    last_store,  \* history: the X-RateLimit-* header values of the response
                 \* whose parse assigned self.rate_limit most recently
    url_call,    \* the call whose URL is being built (path, params)
    url_out,     \* the URL _build_url returned for url_call
    parse_in,    \* the decoded JSON body handed to _parse_response
    parse_out    \* what _parse_response returned or raised for parse_in

vars == <<cart, http, ctor, requests, pc, resp, local, outcome, last_store,
          url_call, url_out, parse_in, parse_out>>

---------------------------------------------------------------------------
(* Bounds of the model.                                                    *)

\* Network requests issued in one behaviour.
MaxRequests == 2

---------------------------------------------------------------------------
(* Python values.                                                          *)

PyNone == [t |-> "None"]
PyStr(s) == [t |-> "str", s |-> s]
PyInt(n) == [t |-> "int", n |-> n]
PyBool(b) == [t |-> "bool", b |-> b]
PyList(l) == [t |-> "list", l |-> l]
PyDict(o) == [t |-> "dict", o |-> o]

\* The empty dict payload.
EmptyDict == [k \in {} |-> PyNone]

\* Python truthiness (`if x:` / `not x`).
Truthy(v) ==
    CASE v.t = "None" -> FALSE
      [] v.t = "str" -> v.s # ""
      [] v.t = "int" -> v.n # 0
      [] v.t = "bool" -> v.b
      [] v.t = "list" -> Len(v.l) > 0
      [] v.t = "dict" -> DOMAIN v.o # {}
      [] OTHER -> TRUE    \* an object with no __bool__/__len__, e.g. RateLimitInfo

\* dict.get(key, default); only dicts have .get (AttributeError otherwise,
\* which the callers test with HasGet before calling).
HasGet(v) == v.t = "dict"

DictGet(d, key, default) == IF key \in DOMAIN d.o THEN d.o[key] ELSE default

\* No result yet.
NoOutcome == [kind |-> "none"]

\* An exception outside the SDK's hierarchy propagating out of a call.
Raised(kind) == [kind |-> kind]

---------------------------------------------------------------------------
(* int(str) on header values.                                              *)

Digits == <<"0", "1", "2", "3", "4", "5", "6", "7", "8", "9">>

IsDigit(c) == \E i \in 1..10 : Digits[i] = c

DigitValue(c) == (CHOOSE i \in 1..10 : Digits[i] = c) - 1

RECURSIVE DigitsValue(_)
DigitsValue(s) ==
    IF s = <<>> THEN 0
    ELSE 10 * DigitsValue(SubSeq(s, 1, Len(s) - 1)) + DigitValue(s[Len(s)])

\* int(s) for s over the alphabet of HeaderValues: a non-empty run of
\* decimal digits parses, anything else raises ValueError.
IntParses(s) == s # <<>> /\ \A i \in 1..Len(s) : IsDigit(s[i])

IntOf(s) == DigitsValue(s)

---------------------------------------------------------------------------
(* HTTP responses.                                                         *)

HeaderNames == {"X-RateLimit-Remaining", "X-RateLimit-Limit", "Retry-After"}

\* Header values a server can send: empty, integers, a non-integer.
HeaderValues == {<<>>, <<"0">>, <<"3", "0">>, <<"1", "0", "0">>, <<"x">>}

\* Header blocks: any subset of the three headers, each with any value.
Headers == UNION {[D -> HeaderValues] : D \in SUBSET HeaderNames}

\* resp.headers.get(name) is not None
HasHeader(headers, name) == name \in DOMAIN headers

\* 200 is delivered by urlopen as a response; the others as HTTPError.
Statuses == {200, 401, 404, 429, 500}

ErrorFull ==
    PyDict([code |-> PyStr("invalid_key"), message |-> PyStr("bad key"),
            request_id |-> PyStr("req_1")])

MetaFull ==
    PyDict([request_id |-> PyStr("req_9"), timestamp |-> PyStr("2024-01-01"),
            page |-> PyInt(2), total_pages |-> PyInt(7),
            total_results |-> PyInt(61)])

UsageFull == PyDict([requests_today |-> PyInt(12), limit |-> PyInt(500)])

\* Response bodies as received: bytes that are not UTF-8, text that is not
\* JSON, or a JSON document (given as the Python value json.loads returns).
BadUtf8 == [b |-> "invalid_utf8"]
BadJson == [b |-> "invalid_json"]
Json(v) == [b |-> "json", v |-> v]

Bodies ==
    { BadUtf8, BadJson,
      Json(PyList(<<>>)),
      Json(PyDict(EmptyDict)),
      Json(PyDict([error |-> PyNone])),
      Json(PyDict([error |-> PyDict(EmptyDict)])),
      Json(PyDict([error |-> PyStr("oops")])),
      Json(PyDict([error |-> ErrorFull])),
      Json(PyDict([error |-> PyDict([message |-> PyStr("bad key")])])),
      Json(PyDict([error |-> PyDict([code |-> PyStr("invalid_key")])])),
      Json(PyDict([data |-> PyList(<<>>), meta |-> MetaFull, usage |-> UsageFull])),
      Json(PyDict([data |-> PyList(<<>>), usage |-> UsageFull])),
      Json(PyDict([meta |-> PyNone])) }

Responses == [status : Statuses, headers : Headers, body : Bodies]

\* json.loads(raw.decode("utf-8")): the exception raised, or "" and the value.
Loads(body) ==
    CASE body.b = "invalid_utf8" -> [exc |-> "UnicodeDecodeError", v |-> PyNone]
      [] body.b = "invalid_json" -> [exc |-> "JSONDecodeError", v |-> PyNone]
      [] OTHER -> [exc |-> "", v |-> body.v]


---------------------------------------------------------------------------
(* _types.py and _errors.py: the records the transport builds.             *)

RateLimitInfo(remaining, limit) ==
    [t |-> "RateLimitInfo", remaining |-> remaining, limit |-> limit]

ApiResponseMeta(request_id, timestamp, page, total_pages, total_results) ==
    [request_id |-> request_id, timestamp |-> timestamp, page |-> page,
     total_pages |-> total_pages, total_results |-> total_results]

ApiResponseUsage(requests_today, limit) ==
    [requests_today |-> requests_today, limit |-> limit]

ApiResponse(data, meta, usage) ==
    [kind |-> "ApiResponse", data |-> data, meta |-> meta, usage |-> usage]

CartApiError(message, status, code, request_id) ==
    [kind |-> "CartApiError", message |-> message, status |-> status,
     code |-> code, request_id |-> request_id]

CartAuthError(message, request_id) ==
    [CartApiError(message, 401, PyStr("auth_error"), request_id)
        EXCEPT !.kind = "CartAuthError"]

CartRateLimitError(message, request_id, retry_after, rate_limit, rate_limit_remaining) ==
    [kind |-> "CartRateLimitError", message |-> message, status |-> 429,
     code |-> PyStr("rate_limit_exceeded"), request_id |-> request_id,
     retry_after |-> retry_after, rate_limit |-> rate_limit,
     rate_limit_remaining |-> rate_limit_remaining]

\* The typed hierarchy: CartApiError and its two subclasses.
TypedErrors == {"CartApiError", "CartAuthError", "CartRateLimitError"}

---------------------------------------------------------------------------
(* HttpClient._parse_rate_limit_headers                                    *)

\* The RateLimitInfo the method builds before assigning it: exc is
\* "ValueError" when int() rejects a value, and info is PyNone when the
\* method assigns nothing (a header is missing, or int() raised).
rate_limit_from_headers(headers) ==
    IF HasHeader(headers, "X-RateLimit-Remaining")
       /\ HasHeader(headers, "X-RateLimit-Limit")
    THEN IF IntParses(headers["X-RateLimit-Remaining"])
            /\ IntParses(headers["X-RateLimit-Limit"])
         THEN [exc |-> "",
               info |-> RateLimitInfo(IntOf(headers["X-RateLimit-Remaining"]),
                                      IntOf(headers["X-RateLimit-Limit"]))]
         ELSE [exc |-> "ValueError", info |-> PyNone]
    ELSE [exc |-> "", info |-> PyNone]

\* A variant that updates the existing snapshot in place, one field at a time.
assign_rate_limit_in_place(rate_limit, info) ==
    IF rate_limit = PyNone THEN info
    ELSE [rate_limit EXCEPT !.remaining = info.remaining]

\* Line 86: self.rate_limit = <the new RateLimitInfo>; the attribute is
\* rebound to the new frozen object in one store.
assign_rate_limit(rate_limit, info) == info

\* A variant that clears the snapshot when it has no new one to store.
parse_rate_limit_headers_reset(rate_limit, headers) ==
    LET r == rate_limit_from_headers(headers)
    IN  [exc |-> r.exc, rate_limit |-> r.info]

\* The whole method on a client whose cache is rate_limit: the exception it
\* raises (or "") and the cache afterwards.
parse_rate_limit_headers(rate_limit, headers) ==
    LET r == rate_limit_from_headers(headers)
    IN  [exc |-> r.exc,
         rate_limit |-> IF r.info # PyNone
                        THEN assign_rate_limit(rate_limit, r.info)
                        ELSE rate_limit]

---------------------------------------------------------------------------
(* HttpClient._handle_error_response                                       *)

\* Lines 93-106: code, message and request_id resolved from the body; exc is
\* the exception that escapes the try block, "" when none does.
resolve_error(status, body) ==
    LET defaults == [exc |-> "",
                     code |-> PyStr("unknown_error"),
                     message |-> PyStr("Cart API error: " \o ToString(status)),
                     request_id |-> PyNone]
        loaded == Loads(body)
    IN  IF loaded.exc = "UnicodeDecodeError"
        THEN [defaults EXCEPT !.exc = "UnicodeDecodeError"]
        ELSE IF loaded.exc = "JSONDecodeError" THEN defaults
        ELSE IF ~HasGet(loaded.v) THEN defaults            \* AttributeError, caught
        ELSE LET error == DictGet(loaded.v, "error", PyDict(EmptyDict))
             IN  IF ~Truthy(error) THEN defaults
                 ELSE IF ~HasGet(error) THEN defaults      \* AttributeError, caught
                 ELSE [exc |-> "",
                       code |-> DictGet(error, "code", defaults.code),
                       message |-> DictGet(error, "message", defaults.message),
                       request_id |-> DictGet(error, "request_id", PyNone)]

\* Lines 112-115: int(retry_after_header) if retry_after_header else None
retry_after_of(headers) ==
    IF HasHeader(headers, "Retry-After") /\ headers["Retry-After"] # <<>>
    THEN IF IntParses(headers["Retry-After"])
         THEN [exc |-> "", v |-> PyInt(IntOf(headers["Retry-After"]))]
         ELSE [exc |-> "ValueError", v |-> PyNone]
    ELSE [exc |-> "", v |-> PyNone]

\* self.rate_limit.limit if self.rate_limit else None (and .remaining)
limit_of(rate_limit) ==
    IF Truthy(rate_limit) THEN PyInt(rate_limit.limit) ELSE PyNone

remaining_of(rate_limit) ==
    IF Truthy(rate_limit) THEN PyInt(rate_limit.remaining) ELSE PyNone

\* Lines 108-124: the exception raised once the body is resolved.  The
\* cache is read once for each of the two fields: rl_limit and rl_remaining
\* are what self.rate_limit held at those two reads.
raise_for_status(status, headers, resolved, rl_limit, rl_remaining) ==
    IF status = 401 THEN CartAuthError(resolved.message, resolved.request_id)
    ELSE IF status = 429
    THEN LET ra == retry_after_of(headers)
         IN  IF ra.exc # "" THEN Raised(ra.exc)
             ELSE CartRateLimitError(resolved.message, resolved.request_id, ra.v,
                                     limit_of(rl_limit), remaining_of(rl_remaining))
    ELSE CartApiError(resolved.message, status, resolved.code, resolved.request_id)

\* The whole method, run with no other thread touching the cache.
handle_error_response(r, rate_limit) ==
    LET resolved == resolve_error(r.status, r.body)
    IN  IF resolved.exc # "" THEN Raised(resolved.exc)
        ELSE raise_for_status(r.status, r.headers, resolved, rate_limit, rate_limit)

---------------------------------------------------------------------------
(* HttpClient._parse_response                                              *)

\* A variant that indexes body["meta"] and body["usage"] instead of .get.
parse_response_indexing(body) ==
    IF ~HasGet(body) THEN Raised("AttributeError")
    ELSE IF "meta" \notin DOMAIN body.o \/ "usage" \notin DOMAIN body.o
    THEN Raised("KeyError")
    ELSE ApiResponse(DictGet(body, "data", PyNone), body.o["meta"].o, body.o["usage"].o)

\* What the static method returns, or the AttributeError it raises when
\* body, meta or usage has no .get.
parse_response(body) ==
    IF ~HasGet(body) THEN Raised("AttributeError")
    ELSE LET raw_meta == DictGet(body, "meta", PyDict(EmptyDict))
             raw_usage == DictGet(body, "usage", PyDict(EmptyDict))
         IN  IF ~HasGet(raw_meta) \/ ~HasGet(raw_usage) THEN Raised("AttributeError")
             ELSE ApiResponse(
                    DictGet(body, "data", PyNone),
                    ApiResponseMeta(DictGet(raw_meta, "request_id", PyStr("")),
                                    DictGet(raw_meta, "timestamp", PyStr("")),
                                    DictGet(raw_meta, "page", PyInt(0)),
                                    DictGet(raw_meta, "total_pages", PyInt(0)),
                                    DictGet(raw_meta, "total_results", PyInt(0))),
                    ApiResponseUsage(DictGet(raw_usage, "requests_today", PyInt(0)),
                                     DictGet(raw_usage, "limit", PyInt(0))))

---------------------------------------------------------------------------
(* HttpClient.get, from the moment urlopen delivers the response.          *)

\* Lines 44-47: the success branch after the headers were parsed.
read_success_body(body) ==
    LET loaded == Loads(body)
    IN  IF loaded.exc # "" THEN Raised(loaded.exc) ELSE parse_response(loaded.v)

\* Lines 43-50 run by one thread alone: the cache afterwards and what the
\* call returns or raises.
get_result(rate_limit, r) ==
    LET parsed == parse_rate_limit_headers(rate_limit, r.headers)
    IN  [rate_limit |-> parsed.rate_limit,
         outcome |->
            IF parsed.exc # "" THEN Raised(parsed.exc)
            ELSE IF r.status = 200 THEN read_success_body(r.body)
            ELSE handle_error_response(r, parsed.rate_limit)]


---------------------------------------------------------------------------
(* HttpClient._build_url.  URLs, keys and string values are sequences of   *)
(* characters; PyText(c) is a Python str given by its characters.          *)

PyText(c) == [t |-> "str", c |-> c]

\* Characters urllib.parse.quote never encodes (letters, digits, "_.-~").
AlwaysSafe ==
    {"a", "b", "c", "d", "e", "f", "g", "h", "i", "j", "k", "l", "m", "n", "o", "p",
     "q", "r", "s", "t", "u", "v", "w", "x", "y", "z", "A", "B", "C", "D", "E", "F",
     "G", "H", "I", "J", "K", "L", "M", "N", "O", "P", "Q", "R", "S", "T", "U", "V",
     "W", "X", "Y", "Z", "0", "1", "2", "3", "4", "5", "6", "7", "8", "9",
     "_", ".", "-", "~"}

\* The other characters of the model's alphabet, with their %XX form.
PctCode(c) ==
    CASE c = " " -> <<"%", "2", "0">>
      [] c = "%" -> <<"%", "2", "5">>
      [] c = "&" -> <<"%", "2", "6">>
      [] c = "," -> <<"%", "2", "C">>
      [] c = "/" -> <<"%", "2", "F">>
      [] c = "=" -> <<"%", "3", "D">>
      [] c = "?" -> <<"%", "3", "F">>

\* urllib.parse.quote(s, safe=safe)
RECURSIVE quote(_, _)
quote(s, safe) ==
    IF s = <<>> THEN <<>>
    ELSE (IF s[1] \in AlwaysSafe \cup safe THEN <<s[1]>> ELSE PctCode(s[1]))
         \o quote(Tail(s), safe)

\* sep.join(parts)
RECURSIVE join(_, _)
join(sep, parts) ==
    IF parts = <<>> THEN <<>>
    ELSE IF Len(parts) = 1 THEN parts[1]
    ELSE parts[1] \o sep \o join(sep, Tail(parts))

\* str(n) for an int n >= 0
RECURSIVE int_str(_)
int_str(n) ==
    IF n < 10 THEN <<Digits[n + 1]>>
    ELSE int_str(n \div 10) \o <<Digits[(n % 10) + 1]>>

\* str(True).lower() / str(False).lower()
lower(s) ==
    [i \in 1..Len(s) |-> CASE s[i] = "T" -> "t" [] s[i] = "F" -> "f" [] OTHER -> s[i]]

bool_str(b) == IF b THEN <<"T", "r", "u", "e">> ELSE <<"F", "a", "l", "s", "e">>

\* str(v) for the scalars callers pass (str and int)
scalar_str(v) == IF v.t = "int" THEN int_str(v.n) ELSE v.c

\* A variant that joins first and quotes the joined string.
joined_list_quoted_whole(value) ==
    quote(join(<<",">>, [i \in 1..Len(value.l) |-> scalar_str(value.l[i])]), {})

\* Lines 66-68: ",".join(quote(str(v), safe="") for v in value)
joined_list(value) ==
    join(<<",">>, [i \in 1..Len(value.l) |-> quote(scalar_str(value.l[i]), {})])

\* Lines 63-73: the part appended for one entry whose value is not None.
param_part(key, value) ==
    quote(key, {"/"}) \o <<"=">> \o
        (CASE value.t = "bool" -> lower(bool_str(value.b))
           [] value.t = "list" -> joined_list(value)
           [] OTHER -> quote(scalar_str(value), {}))

\* Lines 59-73: the parts of the entries of params, in insertion order.
RECURSIVE url_parts(_)
url_parts(items) ==
    IF items = <<>> THEN <<>>
    ELSE (IF items[1][2] = PyNone THEN <<>>
          ELSE <<param_part(items[1][1], items[1][2])>>)
         \o url_parts(Tail(items))

\* The method: params is PyNone or a dict, given as the sequence of its
\* <<key, value>> items in insertion order.
build_url(base_url, path, params) ==
    LET url == base_url \o path
    IN  IF params = PyNone \/ Len(params.items) = 0 THEN url
        ELSE LET parts == url_parts(params.items)
             IN  IF parts # <<>> THEN url \o <<"?">> \o join(<<"&">>, parts)
                 ELSE url

PyItems(items) == [t |-> "dict", items |-> items]

\* base_url.rstrip("/")
RECURSIVE rstrip_slash(_)
rstrip_slash(s) ==
    IF s # <<>> /\ s[Len(s)] = "/" THEN rstrip_slash(SubSeq(s, 1, Len(s) - 1)) ELSE s

\* _client.py: _DEFAULT_BASE_URL = "https://api.usecart.com/v1"
DEFAULT_BASE_URL ==
    <<"h", "t", "t", "p", "s", ":", "/", "/", "a", "p", "i", ".", "u", "s", "e",
      "c", "a", "r", "t", ".", "c", "o", "m", "/", "v", "1">>

---------------------------------------------------------------------------
(* Cart.__init__ and HttpClient.__init__                                   *)

\* Arguments callers pass as api_key: absent, empty, a key.
ApiKeys == {PyNone, PyStr(""), PyStr("cart_sk_1")}

\* HttpClient.__init__: the transport starts with no rate-limit snapshot.
http_init(api_key, base_url) ==
    [t |-> "HttpClient", api_key |-> api_key,
     base_url |-> rstrip_slash(base_url), rate_limit |-> PyNone]

\* A variant that rejects only an absent key (`api_key is None`).
cart_init_none_only(api_key, base_url) ==
    IF api_key = PyNone
    THEN [raised |-> "ValueError", http |-> PyNone, cart |-> PyNone]
    ELSE [raised |-> "", http |-> http_init(api_key, base_url), cart |-> [t |-> "Cart"]]

\* Cart.__init__: what the constructor raises ("" when it returns), and the
\* transport and facade that exist afterwards.
cart_init(api_key, base_url) ==
    IF ~Truthy(api_key)
    THEN [raised |-> "ValueError", http |-> PyNone, cart |-> PyNone]
    ELSE [raised |-> "", http |-> http_init(api_key, base_url),
          cart |-> [t |-> "Cart",
                    resources |-> {"stores", "products", "ads", "suppliers", "niches"}]]

---------------------------------------------------------------------------
(* State.                                                                  *)

\* Threads calling into one client.
NumThreads == 2

Threads == 1..NumThreads

\* The thread of a program that uses the client from one thread only.
MainThread == CHOOSE t \in Threads : \A u \in Threads : t <= u

\* The two header values a snapshot is built from.
StoredHeaders(headers) ==
    [remaining |-> headers["X-RateLimit-Remaining"],
     limit |-> headers["X-RateLimit-Limit"]]

NoCall == [api_key |-> PyNone, raised |-> "not called"]

NoResponse == [status |-> 0, headers |-> [k \in {} |-> <<>>], body |-> [b |-> "none"]]

NoLocal == [info |-> PyNone, resolved |-> PyNone, retry_after |-> PyNone,
            rate_limit |-> PyNone]

NoUrlCall == [method |-> "none"]

Init ==
    /\ cart = PyNone
    /\ http = PyNone
    /\ ctor = NoCall
    /\ requests = 0
    /\ pc = [t \in Threads |-> "idle"]
    /\ resp = [t \in Threads |-> NoResponse]
    /\ local = [t \in Threads |-> NoLocal]
    /\ outcome = [t \in Threads |-> NoOutcome]
    /\ last_store = PyNone
    /\ url_call = NoUrlCall
    /\ url_out = <<>>
    /\ parse_in = PyNone
    /\ parse_out = NoOutcome

pure_vars == <<url_call, url_out, parse_in, parse_out>>

---------------------------------------------------------------------------
(* The client used from one thread: every call runs to completion.         *)

\* Cart(api_key), while the program holds no client.
CartInit(api_key) ==
    /\ cart = PyNone
    /\ LET c == cart_init(api_key, DEFAULT_BASE_URL)
       IN  /\ ctor' = [api_key |-> api_key, raised |-> c.raised]
           /\ http' = c.http
           /\ cart' = c.cart
    /\ UNCHANGED <<requests, pc, resp, local, outcome, last_store, pure_vars>>

\* get() up to urlopen: the request goes out and the thread blocks.
GetSend(t) ==
    /\ cart # PyNone
    /\ pc[t] = "idle"
    /\ requests < MaxRequests
    /\ requests' = requests + 1
    /\ pc' = [pc EXCEPT ![t] = "sent"]
    /\ resp' = [resp EXCEPT ![t] = NoResponse]
    /\ local' = [local EXCEPT ![t] = NoLocal]
    /\ outcome' = [outcome EXCEPT ![t] = NoOutcome]
    /\ UNCHANGED <<cart, http, ctor, last_store, pure_vars>>

\* The server answers thread t's request with one of the responses rs.
Respond(t, rs) ==
    /\ pc[t] = "sent"
    /\ \E r \in rs : resp' = [resp EXCEPT ![t] = r]
    /\ pc' = [pc EXCEPT ![t] = "responded"]
    /\ UNCHANGED <<cart, http, ctor, requests, local, outcome, last_store, pure_vars>>

\* get() from urlopen's return to its own return or raise, uninterrupted.
GetReceive(t) ==
    /\ pc[t] = "responded"
    /\ LET g == get_result(http.rate_limit, resp[t])
       IN  /\ http' = [http EXCEPT !.rate_limit = g.rate_limit]
           /\ outcome' = [outcome EXCEPT ![t] = g.outcome]
    /\ last_store' = IF rate_limit_from_headers(resp[t].headers).info # PyNone
                     THEN StoredHeaders(resp[t].headers) ELSE last_store
    /\ pc' = [pc EXCEPT ![t] = "idle"]
    /\ UNCHANGED <<cart, ctor, requests, resp, local, pure_vars>>

Next ==
    \/ \E k \in ApiKeys : CartInit(k)
    \/ GetSend(MainThread)
    \/ Respond(MainThread, Responses)
    \/ GetReceive(MainThread)

Spec == Init /\ [][Next]_vars


---------------------------------------------------------------------------
(* The client shared by several threads (SpecConc): each get() runs as the *)
(* steps between which another thread can touch self.rate_limit.  Reading  *)
(* the headers, decoding the body and building the exception use only the  *)
(* thread's own data and are folded into the step that follows them.       *)

ConcHeaders ==
    { [k \in {} |-> <<>>],
      "X-RateLimit-Remaining" :> <<"0">> @@ "X-RateLimit-Limit" :> <<"3", "0">>,
      "X-RateLimit-Remaining" :> <<"3", "0">> @@ "X-RateLimit-Limit" :> <<"1", "0", "0">>
          @@ "Retry-After" :> <<"3", "0">>,
      "X-RateLimit-Remaining" :> <<"x">> @@ "X-RateLimit-Limit" :> <<"3", "0">>,
      "X-RateLimit-Limit" :> <<"1", "0", "0">> }

ConcResponses ==
    [status : {200, 429}, headers : ConcHeaders,
     body : {Json(PyDict([error |-> ErrorFull])), BadUtf8}]

InitConc ==
    /\ LET c == cart_init(PyStr("cart_sk_1"), DEFAULT_BASE_URL)
       IN  /\ cart = c.cart
           /\ http = c.http
           /\ ctor = [api_key |-> PyStr("cart_sk_1"), raised |-> c.raised]
    /\ requests = 0
    /\ pc = [t \in Threads |-> "idle"]
    /\ resp = [t \in Threads |-> NoResponse]
    /\ local = [t \in Threads |-> NoLocal]
    /\ outcome = [t \in Threads |-> NoOutcome]
    /\ last_store = PyNone
    /\ url_call = NoUrlCall
    /\ url_out = <<>>
    /\ parse_in = PyNone
    /\ parse_out = NoOutcome

\* Thread t returns or raises o from get().
Finish(t, o) ==
    /\ outcome' = [outcome EXCEPT ![t] = o]
    /\ pc' = [pc EXCEPT ![t] = "idle"]

\* Lines 82-89 up to the assignment: the headers are read and the new
\* RateLimitInfo is built, or int() raises out of get().
BuildRateLimitInfo(t) ==
    /\ pc[t] = "responded"
    /\ LET r == rate_limit_from_headers(resp[t].headers)
       IN  IF r.exc # ""
           THEN Finish(t, Raised(r.exc)) /\ UNCHANGED local
           ELSE /\ local' = [local EXCEPT ![t].info = r.info]
                /\ pc' = [pc EXCEPT ![t] = IF r.info # PyNone THEN "assign" ELSE "body"]
                /\ UNCHANGED outcome
    /\ UNCHANGED <<cart, http, ctor, requests, resp, last_store, pure_vars>>

\* Line 86: the assignment to self.rate_limit.
AssignRateLimit(t) ==
    /\ pc[t] = "assign"
    /\ http' = [http EXCEPT !.rate_limit = assign_rate_limit(http.rate_limit, local[t].info)]
    /\ last_store' = StoredHeaders(resp[t].headers)
    /\ pc' = [pc EXCEPT ![t] = "body"]
    /\ UNCHANGED <<cart, ctor, requests, resp, local, outcome, pure_vars>>

\* Lines 46-47 on a 2xx; lines 93-115 and, unless the status is 429, the
\* raise of lines 109/124 otherwise.
HandleBody(t) ==
    /\ pc[t] = "body"
    /\ IF resp[t].status = 200
       THEN Finish(t, read_success_body(resp[t].body)) /\ UNCHANGED local
       ELSE LET resolved == resolve_error(resp[t].status, resp[t].body)
                ra == retry_after_of(resp[t].headers)
            IN  IF resolved.exc # ""
                THEN Finish(t, Raised(resolved.exc)) /\ UNCHANGED local
                ELSE IF resp[t].status # 429
                THEN /\ Finish(t, raise_for_status(resp[t].status, resp[t].headers,
                                                   resolved, PyNone, PyNone))
                     /\ UNCHANGED local
                ELSE IF ra.exc # ""
                THEN Finish(t, Raised(ra.exc)) /\ UNCHANGED local
                ELSE /\ local' = [local EXCEPT ![t].resolved = resolved,
                                               ![t].retry_after = ra.v]
                     /\ pc' = [pc EXCEPT ![t] = "read_limit"]
                     /\ UNCHANGED outcome
    /\ UNCHANGED <<cart, http, ctor, requests, resp, last_store, pure_vars>>

\* Line 120: self.rate_limit.limit if self.rate_limit else None.  The test
\* and the attribute load are two loads of self.rate_limit; the cache never
\* goes back to None once assigned, so the pair yields what one load yields
\* (at the test when it is falsy, at the attribute load otherwise).
ReadLimit(t) ==
    /\ pc[t] = "read_limit"
    /\ local' = [local EXCEPT ![t].rate_limit = http.rate_limit]
    /\ pc' = [pc EXCEPT ![t] = "read_remaining"]
    /\ UNCHANGED <<cart, http, ctor, requests, resp, outcome, last_store, pure_vars>>

\* Line 121: self.rate_limit.remaining if self.rate_limit else None, and
\* the raise of lines 116-122.
ReadRemaining(t) ==
    /\ pc[t] = "read_remaining"
    /\ Finish(t, raise_for_status(429, resp[t].headers, local[t].resolved,
                                  local[t].rate_limit, http.rate_limit))
    /\ UNCHANGED <<cart, http, ctor, requests, resp, local, last_store, pure_vars>>

NextConc ==
    \E t \in Threads :
        \/ GetSend(t)
        \/ Respond(t, ConcResponses)
        \/ BuildRateLimitInfo(t)
        \/ AssignRateLimit(t)
        \/ HandleBody(t)
        \/ ReadLimit(t)
        \/ ReadRemaining(t)

SpecConc == InitConc /\ [][NextConc]_vars

---------------------------------------------------------------------------
(* Properties of the single-threaded client (Spec).                        *)

\* The main thread's last get() has returned or raised.
Done == pc[MainThread] = "idle" /\ outcome[MainThread].kind # "none"

\* ... and the response it handled was a non-2xx one.
DoneError == Done /\ resp[MainThread].status # 200

\* The integer each integer-valued header value of HeaderValues denotes.
HeaderInt(s) ==
    CASE s = <<"0">> -> 0
      [] s = <<"3", "0">> -> 30
      [] s = <<"1", "0", "0">> -> 100

IntegerHeaderValues == {<<"0">>, <<"3", "0">>, <<"1", "0", "0">>}

HoldsInteger(headers, name) ==
    HasHeader(headers, name) /\ headers[name] \in IntegerHeaderValues

\* The body is JSON text (whatever the JSON value is).
BodyIsJson(body) == body.b = "json"

\* The body parses to a JSON object with a non-empty `error` object.
BodyHasErrorObject(body) ==
    /\ BodyIsJson(body)
    /\ body.v.t = "dict"
    /\ "error" \in DOMAIN body.v.o
    /\ body.v.o["error"].t = "dict"
    /\ DOMAIN body.v.o["error"].o # {}

DefaultMessage(status) ==
    CASE status = 401 -> PyStr("Cart API error: 401")
      [] status = 404 -> PyStr("Cart API error: 404")
      [] status = 429 -> PyStr("Cart API error: 429")
      [] status = 500 -> PyStr("Cart API error: 500")

\* C1: every non-2xx response, whatever its headers and body, makes get()
\* raise an error of the typed hierarchy and never any other exception.
C1_TypedErrorOnEveryNon2xx ==
    DoneError => outcome[MainThread].kind \in TypedErrors

\* C2: the error raised for a non-2xx response is selected by status alone:
\* 401 raises CartAuthError (status 401, code "auth_error"), 429 raises
\* CartRateLimitError (status 429, code "rate_limit_exceeded"), any other
\* status raises CartApiError with that status and the resolved code; message
\* and request_id are the ones resolved from the body.  Stated for responses
\* with a JSON body and no X-RateLimit-* headers, which all reach the status
\* dispatch of lines 108-124.
C2_ErrorSelectedByStatus ==
    (DoneError /\ DOMAIN resp[MainThread].headers \subseteq {"Retry-After"}
               /\ BodyIsJson(resp[MainThread].body)) =>
        LET r == resp[MainThread]
            o == outcome[MainThread]
            resolved == resolve_error(r.status, r.body)
        IN  /\ o.kind = (CASE r.status = 401 -> "CartAuthError"
                           [] r.status = 429 -> "CartRateLimitError"
                           [] OTHER -> "CartApiError")
            /\ o.status = r.status
            /\ o.code = (CASE r.status = 401 -> PyStr("auth_error")
                           [] r.status = 429 -> PyStr("rate_limit_exceeded")
                           [] OTHER -> resolved.code)
            /\ o.message = resolved.message
            /\ o.request_id = resolved.request_id

\* C3: when the error body cannot be parsed as JSON, or parses but has no
\* `error` object, no parse failure is surfaced: a typed error is raised and
\* it carries the defaults (message "Cart API error: <status>", request_id
\* absent, and code "unknown_error" wherever the variant does not fix its
\* own code).  Stated for responses whose X-RateLimit-* and Retry-After
\* headers are absent, so that only the body decides.
C3_DefaultsOnUnparseableBody ==
    (DoneError /\ DOMAIN resp[MainThread].headers = {}
               /\ ~BodyHasErrorObject(resp[MainThread].body)) =>
        LET r == resp[MainThread]
            o == outcome[MainThread]
        IN  /\ o.kind \in TypedErrors
            /\ o.message = DefaultMessage(r.status)
            /\ o.request_id = PyNone
            /\ o.kind = "CartApiError" => o.code = PyStr("unknown_error")

\* C4: on a 429, retry_after is the integer value of Retry-After when the
\* header holds an integer and absent when the header is missing or does not
\* parse as an integer; a CartRateLimitError is raised in both cases.  Stated
\* for responses with no X-RateLimit-* headers and a JSON body, so that only
\* Retry-After decides.
C4_RetryAfterParsedOrAbsent ==
    (DoneError /\ resp[MainThread].status = 429
               /\ DOMAIN resp[MainThread].headers \subseteq {"Retry-After"}
               /\ BodyIsJson(resp[MainThread].body)) =>
        LET h == resp[MainThread].headers
            o == outcome[MainThread]
        IN  /\ o.kind = "CartRateLimitError"
            /\ o.retry_after = IF HoldsInteger(h, "Retry-After")
                               THEN PyInt(HeaderInt(h["Retry-After"]))
                               ELSE PyNone

\* C5: whatever requests came before, a CartRateLimitError raised for a 429
\* carries the limit/remaining of that 429's own X-RateLimit-* headers, and
\* carries neither when that response cached no snapshot (a header missing).
C5_RateLimitFieldsFromOwnResponse ==
    (DoneError /\ outcome[MainThread].kind = "CartRateLimitError") =>
        LET h == resp[MainThread].headers
            o == outcome[MainThread]
        IN  IF HasHeader(h, "X-RateLimit-Remaining") /\ HasHeader(h, "X-RateLimit-Limit")
            THEN /\ o.rate_limit = PyInt(HeaderInt(h["X-RateLimit-Limit"]))
                 /\ o.rate_limit_remaining = PyInt(HeaderInt(h["X-RateLimit-Remaining"]))
            ELSE /\ o.rate_limit = PyNone
                 /\ o.rate_limit_remaining = PyNone

\* The step in which the main thread's get() handles its response.
HandlesResponse == pc[MainThread] = "responded" /\ pc'[MainThread] = "idle"

\* C6: for every response, success or error: when X-RateLimit-Remaining and
\* X-RateLimit-Limit are both present and both integers the cached snapshot
\* becomes exactly that pair; otherwise (one or both missing, or a value that
\* is no integer) the snapshot is left exactly as it was before the call.
C6_SnapshotOverwrittenOnlyByBothHeaders ==
    [][HandlesResponse =>
        LET h == resp[MainThread].headers
        IN  IF HoldsInteger(h, "X-RateLimit-Remaining")
               /\ HoldsInteger(h, "X-RateLimit-Limit")
            THEN /\ http'.rate_limit # PyNone
                 /\ http'.rate_limit.remaining = HeaderInt(h["X-RateLimit-Remaining"])
                 /\ http'.rate_limit.limit = HeaderInt(h["X-RateLimit-Limit"])
            ELSE http'.rate_limit = http.rate_limit]_vars

\* C6 witness: a second call whose X-RateLimit-Limit is no integer has
\* completed and the snapshot cached by the first call is still there.
C6_Witness ==
    /\ Done
    /\ requests = 2
    /\ HoldsInteger(resp[MainThread].headers, "X-RateLimit-Remaining")
    /\ HasHeader(resp[MainThread].headers, "X-RateLimit-Limit")
    /\ resp[MainThread].headers["X-RateLimit-Limit"] = <<"x">>
    /\ http.rate_limit = RateLimitInfo(0, 100)

\* C9: a Cart(api_key) call with an empty or absent key raises the
\* configuration error and leaves no client: no facade, no transport (and so
\* no rate-limit state), and no network request has been issued.
C9_NoClientWithoutApiKey ==
    (ctor.raised # "not called" /\ ctor.api_key \in {PyNone, PyStr("")}) =>
        /\ ctor.raised = "ValueError"
        /\ cart = PyNone
        /\ http = PyNone
        /\ requests = 0

\* C9 witness: the constructor was called with the empty key and raised.
C9_Witness ==
    /\ ctor.api_key = PyStr("")
    /\ ctor.raised = "ValueError"
    /\ cart = PyNone


---------------------------------------------------------------------------
(* URL building on its own (SpecUrl): each behaviour starts from one call  *)
(* and builds its URL.                                                     *)

\* Entries of one params mapping.
MaxParams == 2

ParamKeys == {<<"q">>, <<"p", "a", "g", "e">>, <<"a", "&", "b">>}

A_COM == <<"a", ".", "c", "o", "m">>
B_COM == <<"b", ".", "c", "o", "m">>

ParamValues ==
    { PyNone, PyBool(TRUE), PyBool(FALSE), PyInt(0), PyInt(25),
      PyText(<<>>), PyText(<<"a", " ", "b">>), PyText(<<"x", "=", "y">>),
      PyList(<<>>), PyList(<<PyText(A_COM)>>),
      PyList(<<PyText(A_COM), PyText(B_COM)>>),
      PyList(<<PyText(<<"a", ",", "b">>), PyText(<<"c", "&", "d">>)>>) }

\* Mappings with at most MaxParams entries, keys distinct, in every order.
ParamMaps ==
    { PyItems(items) :
        items \in { f \in UNION {[1..n -> ParamKeys \X ParamValues] : n \in 0..MaxParams} :
                      \A i, j \in DOMAIN f : i # j => f[i][1] # f[j][1] } }

STORES_PATH == <<"/", "s", "t", "o", "r", "e", "s">>
COMPARE_PATH == STORES_PATH \o <<"/", "c", "o", "m", "p", "a", "r", "e">>
DOMAINS_KEY == <<"d", "o", "m", "a", "i", "n", "s">>

UrlCalls ==
    [method : {"get"}, path : {STORES_PATH}, params : ParamMaps \cup {PyNone}]
    \cup [method : {"compare"},
          domains : {<<>>, <<PyText(A_COM)>>, <<PyText(A_COM), PyText(B_COM)>>,
                     <<PyText(<<"a", ",", "b">>), PyText(B_COM)>>}]

BaseUrls == {DEFAULT_BASE_URL, DEFAULT_BASE_URL \o <<"/">>}

InitUrl ==
    /\ \E base \in BaseUrls :
          LET c == cart_init(PyStr("cart_sk_1"), base)
          IN  /\ cart = c.cart
              /\ http = c.http
              /\ ctor = [api_key |-> PyStr("cart_sk_1"), raised |-> c.raised]
    /\ requests = 0
    /\ pc = [t \in Threads |-> "idle"]
    /\ resp = [t \in Threads |-> NoResponse]
    /\ local = [t \in Threads |-> NoLocal]
    /\ outcome = [t \in Threads |-> NoOutcome]
    /\ last_store = PyNone
    /\ url_call \in UrlCalls
    /\ url_out = <<>>
    /\ parse_in = PyNone
    /\ parse_out = NoOutcome

\* HttpClient.get(path, params), line 31: the URL the request is sent to.
HttpGetBuildUrl ==
    /\ url_call.method = "get"
    /\ url_out = <<>>
    /\ url_out' = build_url(http.base_url, url_call.path, url_call.params)
    /\ UNCHANGED <<cart, http, ctor, requests, pc, resp, local, outcome,
                   last_store, url_call, parse_in, parse_out>>

\* StoresResource.compare(domains): get("/stores/compare", {"domains": domains})
StoresCompare ==
    /\ url_call.method = "compare"
    /\ url_out = <<>>
    /\ url_out' = build_url(http.base_url, COMPARE_PATH,
                            PyItems(<< <<DOMAINS_KEY, PyList(url_call.domains)>> >>))
    /\ UNCHANGED <<cart, http, ctor, requests, pc, resp, local, outcome,
                   last_store, url_call, parse_in, parse_out>>

NextUrl == HttpGetBuildUrl \/ StoresCompare

SpecUrl == InitUrl /\ [][NextUrl]_vars

\* Reading a URL back: splitting at a separator, and percent-decoding.
FirstIndex(s, c) == CHOOSE i \in 1..Len(s) : s[i] = c /\ \A j \in 1..(i - 1) : s[j] # c

RECURSIVE Split(_, _)
Split(s, c) ==
    IF \A i \in 1..Len(s) : s[i] # c THEN <<s>>
    ELSE LET i == FirstIndex(s, c)
         IN  <<SubSeq(s, 1, i - 1)>> \o Split(SubSeq(s, i + 1, Len(s)), c)

PctChars == {" ", "%", "&", ",", "/", "=", "?"}

RECURSIVE Unquote(_)
Unquote(s) ==
    IF s = <<>> THEN <<>>
    ELSE IF s[1] = "%" /\ Len(s) >= 3
    THEN <<CHOOSE c \in PctChars : PctCode(c) = SubSeq(s, 1, 3)>>
         \o Unquote(SubSeq(s, 4, Len(s)))
    ELSE <<s[1]>> \o Unquote(Tail(s))

\* Only unreserved characters and %XX escapes: nothing left unencoded.
FullyEncoded(s) == \A i \in 1..Len(s) : s[i] \in AlwaysSafe \cup {"%"}

\* The entries of the call's params mapping, and those whose value is not null.
CallItems ==
    IF url_call.method = "compare"
    THEN << <<DOMAINS_KEY, PyList(url_call.domains)>> >>
    ELSE IF url_call.params = PyNone THEN <<>> ELSE url_call.params.items

IsNonNull(item) == item[2] # PyNone

NonNullItems == SelectSeq(CallItems, IsNonNull)

CallPrefix ==
    http.base_url \o (IF url_call.method = "compare" THEN COMPARE_PATH ELSE url_call.path)

\* The value of a list entry: its elements, each percent-encoded, joined by
\* unencoded commas.
ListValueOk(v, l) ==
    IF l = <<>> THEN v = <<>>
    ELSE LET pieces == Split(v, ",")
         IN  /\ Len(pieces) = Len(l)
             /\ \A j \in 1..Len(l) :
                    FullyEncoded(pieces[j]) /\ Unquote(pieces[j]) = l[j].c

\* One `key=value` part for one entry.
PartOk(part, item) ==
    /\ \E i \in 1..Len(part) : part[i] = "="
    /\ LET eq == FirstIndex(part, "=")
           k == SubSeq(part, 1, eq - 1)
           v == SubSeq(part, eq + 1, Len(part))
       IN  /\ Unquote(k) = item[1]
           /\ item[2].t = "bool" =>
                 v = (IF item[2].b THEN <<"t", "r", "u", "e">>
                      ELSE <<"f", "a", "l", "s", "e">>)
           /\ item[2].t = "list" => ListValueOk(v, item[2].l)

\* C7: the query string has one key=value part per entry whose value is not
\* null, in insertion order, and none for null values (no "?" when all are
\* null); a bool appears as true/false; a list appears as one part whose
\* value is its percent-encoded elements joined by unencoded commas, so that
\* stores.compare(["a.com","b.com"]) yields domains=a.com,b.com.
C7_QueryStringParts ==
    url_out # <<>> =>
        /\ Len(url_out) >= Len(CallPrefix)
        /\ SubSeq(url_out, 1, Len(CallPrefix)) = CallPrefix
        /\ LET rest == SubSeq(url_out, Len(CallPrefix) + 1, Len(url_out))
           IN  IF NonNullItems = <<>> THEN rest = <<>>
               ELSE /\ rest # <<>>
                    /\ rest[1] = "?"
                    /\ LET parts == Split(Tail(rest), "&")
                       IN  /\ Len(parts) = Len(NonNullItems)
                           /\ \A i \in 1..Len(parts) : PartOk(parts[i], NonNullItems[i])
                    /\ (url_call.method = "compare"
                        /\ url_call.domains = <<PyText(A_COM), PyText(B_COM)>>) =>
                           Tail(rest) = DOMAINS_KEY \o <<"=">> \o A_COM \o <<",">> \o B_COM

\* C7 witness: the URL was built for a mapping whose first value is null and
\* whose second is a list with elements that need encoding.
C7_Witness ==
    /\ url_out # <<>>
    /\ url_call.method = "get"
    /\ url_call.params # PyNone
    /\ Len(url_call.params.items) = 2
    /\ url_call.params.items[1][2] = PyNone
    /\ url_call.params.items[2][2]
         = PyList(<<PyText(<<"a", ",", "b">>), PyText(<<"c", "&", "d">>)>>)

---------------------------------------------------------------------------
(* Body parsing on its own (SpecParse): each behaviour starts from one     *)
(* decoded JSON body and parses it.                                        *)

Restrict(f, S) == [k \in S |-> f[k]]

\* `meta` values: every subset of the fields, or JSON null.
MetaValues ==
    {PyDict(Restrict(MetaFull.o, S)) : S \in SUBSET (DOMAIN MetaFull.o)} \cup {PyNone}

UsageValues ==
    {PyDict(Restrict(UsageFull.o, S)) : S \in SUBSET (DOMAIN UsageFull.o)} \cup {PyNone}

\* JSON objects with any of data/meta/usage missing, and one JSON array.
ParseBodies ==
    { PyDict(Restrict([data |-> PyList(<<>>), meta |-> m, usage |-> u], D)) :
        D \in SUBSET {"data", "meta", "usage"}, m \in MetaValues, u \in UsageValues }
    \cup {PyList(<<>>)}

InitParse ==
    /\ cart = PyNone
    /\ http = PyNone
    /\ ctor = NoCall
    /\ requests = 0
    /\ pc = [t \in Threads |-> "idle"]
    /\ resp = [t \in Threads |-> NoResponse]
    /\ local = [t \in Threads |-> NoLocal]
    /\ outcome = [t \in Threads |-> NoOutcome]
    /\ last_store = PyNone
    /\ url_call = NoUrlCall
    /\ url_out = <<>>
    /\ parse_in \in ParseBodies
    /\ parse_out = NoOutcome

\* HttpClient._parse_response(body)
ParseResponse ==
    /\ parse_out = NoOutcome
    /\ parse_out' = parse_response(parse_in)
    /\ UNCHANGED <<cart, http, ctor, requests, pc, resp, local, outcome,
                   last_store, url_call, url_out, parse_in>>

NextParse == ParseResponse

SpecParse == InitParse /\ [][NextParse]_vars

\* The key is missing from the object, or holds an object.
MissingOrObject(body, key) == key \in DOMAIN body.o => body.o[key].t = "dict"

MetaDefaults ==
    [request_id |-> PyStr(""), timestamp |-> PyStr(""), page |-> PyInt(0),
     total_pages |-> PyInt(0), total_results |-> PyInt(0)]

UsageDefaults == [requests_today |-> PyInt(0), limit |-> PyInt(0)]

\* Every field the raw object lacks has its default in the parsed record.
DefaultsFilled(body, key, parsed, defaults) ==
    \A f \in DOMAIN defaults :
        (key \notin DOMAIN body.o \/ f \notin DOMAIN body.o[key].o) => parsed[f] = defaults[f]

\* C8: for a JSON object body, a missing `meta` yields request_id "",
\* timestamp "", page 0, total_pages 0, total_results 0, a missing `usage`
\* yields requests_today 0, limit 0, each field missing inside a present
\* meta/usage object takes the same default, and an ApiResponse is returned.
C8_MissingMetaUsageDefaults ==
    (parse_out # NoOutcome /\ parse_in.t = "dict"
       /\ MissingOrObject(parse_in, "meta") /\ MissingOrObject(parse_in, "usage")) =>
        /\ parse_out.kind = "ApiResponse"
        /\ "meta" \notin DOMAIN parse_in.o => parse_out.meta = MetaDefaults
        /\ "usage" \notin DOMAIN parse_in.o => parse_out.usage = UsageDefaults
        /\ DefaultsFilled(parse_in, "meta", parse_out.meta, MetaDefaults)
        /\ DefaultsFilled(parse_in, "usage", parse_out.usage, UsageDefaults)

\* C8 witness: a body with no `meta` and a `usage` object lacking `limit`
\* was parsed into an ApiResponse.
C8_Witness ==
    /\ parse_out # NoOutcome
    /\ parse_out.kind = "ApiResponse"
    /\ parse_in.t = "dict"
    /\ "meta" \notin DOMAIN parse_in.o
    /\ "usage" \in DOMAIN parse_in.o
    /\ parse_in.o["usage"].t = "dict"
    /\ DOMAIN parse_in.o["usage"].o = {"requests_today"}


---------------------------------------------------------------------------
(* Properties of the client shared by threads (SpecConc).                  *)

\* The snapshot is the complete pair of the headers recorded in last_store.
SnapshotOfLastStore ==
    IF last_store = PyNone THEN http.rate_limit = PyNone
    ELSE /\ last_store.remaining \in IntegerHeaderValues
         /\ last_store.limit \in IntegerHeaderValues
         /\ http.rate_limit # PyNone
         /\ http.rate_limit.remaining = HeaderInt(last_store.remaining)
         /\ http.rate_limit.limit = HeaderInt(last_store.limit)

\* C10: with calls running concurrently on one client, the cached snapshot is
\* in every state either absent or the complete (remaining, limit) pair of
\* the one response whose header parsing assigned most recently, never a
\* mix of two responses, and once set it never reverts to absent.
C10_LastWriterWins ==
    /\ []SnapshotOfLastStore
    /\ [][http.rate_limit # PyNone => http'.rate_limit # PyNone]_vars

\* C10 witness: two threads have both assigned, from different responses,
\* and the snapshot is the pair of the later one.
C10_Witness ==
    /\ \A t \in {1, 2} : pc[t] \in {"body", "read_limit", "read_remaining"}
    /\ resp[1].headers # resp[2].headers
    /\ \A t \in {1, 2} : local[t].info # PyNone
    /\ http.rate_limit = local[1].info
    /\ last_store = StoredHeaders(resp[1].headers)

\* The snapshots a response of ConcResponses can cache: one per header block
\* carrying both X-RateLimit-* headers with integer values.
ConcSnapshots ==
    { RateLimitInfo(HeaderInt(h["X-RateLimit-Remaining"]),
                    HeaderInt(h["X-RateLimit-Limit"])) :
        h \in { g \in ConcHeaders : /\ HoldsInteger(g, "X-RateLimit-Remaining")
                                    /\ HoldsInteger(g, "X-RateLimit-Limit") } }

\* The error carries the two fields of the snapshot s.
FieldsOfSnapshot(o, s) ==
    /\ o.rate_limit = PyInt(s.limit)
    /\ o.rate_limit_remaining = PyInt(s.remaining)

\* C11: with calls running concurrently on one client, every
\* CartRateLimitError raised for a 429 carries rate_limit and
\* rate_limit_remaining of one and the same cached snapshot, never the limit
\* of one response with the remaining of another.  Stated for the errors
\* that carry both fields: the pair is the (limit, remaining) pair of a
\* single response.
C11_ErrorFieldsFromOneSnapshot ==
    \A t \in Threads :
        (/\ outcome[t].kind = "CartRateLimitError"
         /\ outcome[t].rate_limit # PyNone
         /\ outcome[t].rate_limit_remaining # PyNone) =>
            \E s \in ConcSnapshots : FieldsOfSnapshot(outcome[t], s)

===========================================================================
